---- MODULE Spec2Model ----
(***************************************************************************)
(* A model of the DevOps Intelligence Agent's plan / execute / approve     *)
(* loop (src/src/agent/bedrock_agent.py), of its two conversation stores   *)
(* (src/src/storage), of the tool registry (src/src/agent/tools.py) and of *)
(* the reasoning-output parser (src/src/agent/reasoning.py).               *)
(***************************************************************************)
EXTENDS Integers, Sequences, FiniteSets, TLC

\* ------------------------------------------------------------------ bounds

\* add_message calls made on the stores, and the largest limit asked of
\* get_history besides the default.
MaxAdds == 3
MaxLimit == 2
\* register_tool calls made besides those of initialize.
MaxRegisterCalls == 2
\* Longest text, in atoms, given to _parse_reasoning_output.
MaxLen == 5
\* Longest plan the reasoning engine returns in the model.
MaxPlan == 2
\* Largest reading of the wall clock (datetime.utcnow()).
MaxClock == 1

Sessions == {"s1", "s2"}
\* The process_message calls and the approve_action calls the model follows;
\* a specification follows all of them or the first of each only.
Req == {1, 2}
Apr == {1, 2}
Clock == 0..MaxClock
\* Clock readings of earlier runs of the service, whose items the tables keep.
PastClock == {-3, -2}

\* ------------------------------------------------------------ tool registry

\* The names ToolRegistry.initialize registers, in registration order.
StartupTools ==
  << "aws_infrastructure", "code_analysis", "web_search",
     "code_execution", "knowledge_base", "cost_analysis" >>

\* register_tool: self.tools[tool.name] = tool.  The registry is a Python dict:
\* an insertion-ordered sequence of distinct names; assigning an existing key
\* replaces its value in place.  An entry is <<name, tool>>.
RECURSIVE IndexOfName(_, _, _)
IndexOfName(tools, name, i) ==
  IF i > Len(tools) THEN 0
  ELSE IF tools[i][1] = name THEN i
  ELSE IndexOfName(tools, name, i + 1)

register_tool_appending(tools, tool) == Append(tools, <<tool.name, tool>>)

register_tool(tools, tool) ==
  LET i == IndexOfName(tools, tool.name, 1)
  IN  IF i = 0 THEN Append(tools, <<tool.name, tool>>)
      ELSE [tools EXCEPT ![i] = <<tool.name, tool>>]

\* BaseTool.get_definition: the definition carries the tool's declared name.
get_definition(tool) ==
  [name |-> tool.name, description |-> tool.description]

\* get_tool_definitions: one definition per value of the dict, in order.
get_tool_definitions(tools) ==
  [i \in 1..Len(tools) |-> get_definition(tools[i][2])]

\* A tool object of class `name` (its instance id tells two objects apart).
ToolObject(name, id) ==
  [name |-> name, description |-> name, id |-> id]

RECURSIVE RegisterAll(_, _, _)
RegisterAll(tools, names, i) ==
  IF i > Len(names) THEN tools
  ELSE RegisterAll(register_tool(tools, ToolObject(names[i], 0)), names, i + 1)

\* ToolRegistry.initialize on a fresh registry.
initialize == RegisterAll(<< >>, StartupTools, 1)

RegisteredNames(tools) == {tools[i][1] : i \in 1..Len(tools)}

\* ------------------------------------------------------------------- values

NoResult == << >>
NoStep == [tool |-> "none", input |-> "none", requires_approval |-> FALSE]
NoText == <<"none", 0>>
NoKey == <<"none", <<"none", 0>>>>

\* What a tool returns for an input: its own payload (tools are external
\* collaborators; the payload identifies the tool and the input it was given).
Payload(tool_name, tool_input) == <<"payload", tool_name, tool_input>>

\* A step that carries no "input" key.
NoInput == "absent"

\* Plan steps the reasoning engine can return: a registered tool or one that
\* is not registered, gated or not; and a gated step without "input".
PlanTools == {"aws_infrastructure", "no_such_tool"}
PlanSteps ==
  [tool : PlanTools, input : {"list_ec2"}, requires_approval : BOOLEAN]
    \cup {[tool |-> "aws_infrastructure", input |-> NoInput,
            requires_approval |-> TRUE]}

RECURSIVE SeqsUpTo(_, _)
SeqsUpTo(S, n) ==
  IF n = 0 THEN { << >> }
  ELSE LET shorter == SeqsUpTo(S, n - 1)
       IN  shorter \cup
           { Append(q, x) : q \in { p \in shorter : Len(p) = n - 1 }, x \in S }

Plans == SeqsUpTo(PlanSteps, MaxPlan)

\* What the call of reasoning_engine.reason can do: raise (the prompt is built
\* outside reason's try block), return a plan that cannot be iterated (the
\* parsed JSON's "plan" is returned as it is), or return a list of steps.
ReasonOutcomes ==
  {[kind |-> "raise", plan |-> << >>], [kind |-> "bad_plan", plan |-> << >>]}
    \cup {[kind |-> "plan", plan |-> p] : p \in Plans}

\* A decoded JSON value where a plan is expected: a list with its items, or a
\* value that is no list.
JsonList(items) == [type |-> "list", items |-> items]
JsonNull == [type |-> "null", items |-> << >>]

\* json.dumps(action) / json.loads(...): the stored text and its decoding.
JsonDumps(step) == <<"json", step>>
JsonLoads(text) == text[2]

\* f"{session_id}-{datetime.utcnow().timestamp()}"
ActionId(session_id, ts) == <<session_id, ts>>
ActionKeySharingSessions(session_id, action_id) == <<"s1", action_id>>

ActionKey(session_id, action_id) == <<session_id, action_id>>

\* table.put_item: the item with this key is written, replacing any other.
PutItem(table, key, item) ==
  [k \in DOMAIN table \cup {key} |-> IF k = key THEN item ELSE table[k]]

\* ----------------------------------------------------- durable conversation store

\* The ascending sequence of a finite set of integers.
RECURSIVE SortAsc(_)
SortAsc(S) ==
  IF S = {} THEN << >>
  ELSE LET m == CHOOSE x \in S : \A y \in S : x <= y
       IN  <<m>> \o SortAsc(S \ {m})

LastN(q, n) ==
  IF n >= Len(q) THEN q ELSE SubSeq(q, Len(q) - n + 1, Len(q))

\* get_history's default limit.
DefaultLimit == 50

\* ConversationStore.get_history: query the session's items newest first, keep
\* at most `limit`, and return them oldest first.  The table's key is
\* (session_id, timestamp); isoformat() keeps the order of the clock readings.
DurableQuery(table, session_id, limit) ==
  LET stamps == SortAsc({k[2] : k \in {x \in DOMAIN table : x[1] = session_id}})
      kept   == LastN(stamps, limit)
  IN  [i \in 1..Len(kept) |->
         [role      |-> table[<<session_id, kept[i]>>].role,
          content   |-> table[<<session_id, kept[i]>>].content,
          timestamp |-> kept[i]]]

\* ConversationStore._get_message_count
MessageCount(table, session_id) ==
  Cardinality({x \in DOMAIN table : x[1] = session_id})

\* ConversationStore.add_message, the write to the conversations table.
DurablePutMessage(table, session_id, role, content, ts) ==
  PutItem(table, <<session_id, ts>>,
          [role |-> role, content |-> content, timestamp |-> ts])

\* ... and the write to the sessions table that follows it.
DurablePutSession(stable, table, session_id, ts) ==
  PutItem(stable, session_id,
          [last_activity |-> ts, message_count |-> MessageCount(table, session_id)])

\* ----------------------------------------------------------------- variables

VARIABLES
  now,                    \* the reading datetime.utcnow() gives
  ENABLE_HUMAN_APPROVAL,  \* settings.ENABLE_HUMAN_APPROVAL
  tools,                  \* ToolRegistry.tools
  conversations_table,    \* DynamoDB conversations table, key (session_id, timestamp)
  sessions_table,         \* DynamoDB sessions table, key session_id
  actions_table,          \* DynamoDB actions table, key (session_id, action_id)
  pm,                     \* process_message call frames
  ap,                     \* approve_action call frames
  calls,                  \* the execute_tool invocations of the calls under way
  conversations,          \* MemoryConversationStore.conversations
  sessions,               \* MemoryConversationStore.sessions
  added,                  \* per session, the add_message calls made so far
  history_result,         \* what the last get_history returned, from each store
  registered,             \* the tools handed to register_tool so far
  reasoning_text,         \* the text given to _parse_reasoning_output
  parsed,                 \* what _parse_reasoning_output returned for it
  model_call,             \* what the remote model call of reason() does
  reason_result,          \* what reason() returned, or that it raised
  replicas,               \* the service processes that share the tables
  model_answers,          \* what the planning model can answer in this deployment
  attempts                \* per process_message call, the external calls it has made

agentVars ==
  << now, ENABLE_HUMAN_APPROVAL, tools, conversations_table, sessions_table,
     actions_table, pm, ap, calls, attempts >>
deployVars == << replicas, model_answers >>
storeVars == << conversations, sessions, added, history_result >>
registryVars == << registered >>
parseVars == << reasoning_text, parsed, model_call, reason_result >>
vars == << agentVars, deployVars, storeVars, registryVars, parseVars >>

\* What POST /chat has answered: nothing yet.
NoHttp == [status |-> 0, keys |-> {}]

\* A process_message call frame.  `writes` lists the roles of the messages this
\* call has put into the conversations table, `store_failures` the store
\* operations that raised under it, `http` what the /chat route answered.
IdlePm ==
  [pc |-> "idle", session_id |-> "none", message |-> NoText, history |-> << >>,
   reasoning |-> "none", plan |-> << >>, idx |-> 0, results |-> << >>,
   writes |-> << >>, store_failures |-> {}, http |-> NoHttp,
   final |-> [message |-> NoText, requires_approval |-> FALSE],
   response |-> [keys |-> {}, message |-> NoText, reasoning |-> "none",
                 actions_taken |-> << >>, requires_approval |-> FALSE,
                 session_id |-> "none", error |-> "none"]]

IdleAp ==
  [pc |-> "idle", session_id |-> "none", action_id |-> NoKey[2],
   action |-> NoStep, result |-> NoResult, raised |-> "none", http |-> 0]

NoHistoryResult ==
  [session_id |-> "none", limit |-> 0, memory |-> << >>, durable |-> << >>]
NoParse == [reasoning |-> << >>, plan |-> JsonList(<< >>), returned |-> FALSE]
NoReason ==
  [reasoning |-> << >>, plan |-> JsonList(<< >>), returned |-> FALSE,
   raised |-> FALSE]

\* One service process (uvicorn.run with one worker), a planning model that
\* can give any of the answers, and no call under way.
DeployIdle ==
  /\ replicas = 1
  /\ model_answers = ReasonOutcomes
  /\ attempts = [r \in Req |-> << >>]

\* The frames of the calls a specification follows, the others being those of
\* calls that have returned.
PmFrames(followed) ==
  [r \in Req |-> IF r \in followed THEN IdlePm ELSE [IdlePm EXCEPT !.pc = "returned"]]
ApFrames(followed) ==
  [a \in Apr |-> IF a \in followed THEN IdleAp ELSE [IdleAp EXCEPT !.pc = "returned"]]

StoreIdle ==
  /\ conversations = [s \in Sessions |-> << >>]
  /\ sessions = << >>
  /\ added = [s \in Sessions |-> << >>]
  /\ history_result = NoHistoryResult
RegistryIdle == registered = << >>
ParseIdle ==
  /\ reasoning_text = << >> /\ parsed = NoParse
  /\ model_call = "none" /\ reason_result = NoReason

AgentInit ==
  /\ StoreIdle /\ RegistryIdle /\ ParseIdle /\ DeployIdle
  /\ now = 0
  /\ ENABLE_HUMAN_APPROVAL \in BOOLEAN
  /\ tools = initialize
  /\ conversations_table = << >>
  /\ sessions_table = << >>
  /\ actions_table = << >>
  /\ pm = PmFrames({1})
  /\ ap = ApFrames(Apr)
  /\ calls = {}

\* What the agent's handlers never touch.
AgentOnly == UNCHANGED << deployVars, storeVars, registryVars, parseVars >>

\* The clock is read by add_message, by _store_pending_action and for
\* update_item's executed_at.
ClockReadAhead ==
  \/ \E r \in Req : pm[r].pc \in {"add_user", "execute", "add_assistant"}
  \/ \E a \in Apr : ap[a].pc = "update"

\* The clock moves on between two readings, or does not; how far it has moved
\* shows at the next reading.
Tick ==
  /\ now < MaxClock
  /\ ClockReadAhead
  /\ now' = now + 1
  /\ AgentOnly
  /\ UNCHANGED << ENABLE_HUMAN_APPROVAL, tools, conversations_table,
                  sessions_table, actions_table, pm, ap, calls, attempts >>

\* ------------------------------------------------------------ process_message

\* The request's text, and the texts the narration step can produce for it.
UserText(r) == <<"user text", r>>
NarrationText(r) == <<"narration", r>>
FallbackText == <<"I've processed your request. Please check the action results for details.", 0>>
ErrorText == <<"I encountered an error processing your request. Please try again.", 0>>

\* tool_input = step.get('input', {})
StepInput(step) == IF step.input = NoInput THEN "{}" ELSE step.input

\* The gate of _execute_plan: step.get('requires_approval') and
\* settings.ENABLE_HUMAN_APPROVAL.
GatedNever(step) == FALSE

Gated(step) == step.requires_approval /\ ENABLE_HUMAN_APPROVAL

PendingEntry(tool_name) ==
  [tool |-> tool_name, status |-> "pending_approval", result |-> NoResult,
   error |-> "none", message |-> "Action requires human approval"]

SuccessEntryWrapped(tool_name, tool_result) ==
  [tool |-> tool_name, status |-> "success", result |-> <<"wrapped", tool_result>>,
   error |-> "none", message |-> "none"]

SuccessEntry(tool_name, tool_result) ==
  [tool |-> tool_name, status |-> "success", result |-> tool_result,
   error |-> "none", message |-> "none"]

ErrorEntry(tool_name, e) ==
  [tool |-> tool_name, status |-> "error", result |-> NoResult,
   error |-> e, message |-> "none"]

\* results.append(entry), then the loop moves to the next step; after the last
\* step _execute_plan returns and process_message goes on to narrate.
RecordTwice(f, entry) ==
  [f EXCEPT !.results = Append(Append(@, entry), entry),
            !.idx = @ + 1,
            !.pc = IF f.idx >= Len(f.plan) THEN "narrate" ELSE "execute"]

Record(f, entry) ==
  [f EXCEPT !.results = Append(@, entry),
            !.idx = @ + 1,
            !.pc = IF f.idx >= Len(f.plan) THEN "narrate" ELSE "execute"]

\* The except clause inside the loop: the error is recorded for this step and
\* the loop goes on.
HandleStepExceptionBreaking(f, tool_name, e) ==
  [f EXCEPT !.results = Append(@, ErrorEntry(tool_name, e)),
            !.idx = Len(f.plan) + 1, !.pc = "narrate"]

HandleStepException(f, tool_name, e) == Record(f, ErrorEntry(tool_name, e))

\* The item _store_pending_action puts.
PendingItem(session_id, step, ts) ==
  [session_id |-> session_id, action_id |-> ActionId(session_id, ts),
   action |-> JsonDumps(step), status |-> "pending",
   created_at |-> ts, executed_at |-> -1]

\* any(r.get('status') == 'pending_approval' for r in execution_results)
AnyPending(results) ==
  \E i \in 1..Len(results) : results[i].status = "pending_approval"

\* _generate_response: the narration model call succeeds (ok) or fails.
GenerateResponse(r, results, ok) ==
  IF ok
    THEN [message |-> NarrationText(r), requires_approval |-> AnyPending(results)]
    ELSE [message |-> FallbackText, requires_approval |-> FALSE]

OkKeys ==
  {"message", "reasoning", "actions_taken", "requires_approval", "session_id",
   "timestamp"}
ErrorKeys == {"message", "error", "session_id"}

\* The mapping process_message returns at the end of its try block.
OkResponseDroppingActions(f) ==
  [keys |-> OkKeys, message |-> f.final.message, reasoning |-> f.reasoning,
   actions_taken |-> << >>, requires_approval |-> f.final.requires_approval,
   session_id |-> f.session_id, error |-> "none"]

OkResponse(f) ==
  [keys |-> OkKeys, message |-> f.final.message, reasoning |-> f.reasoning,
   actions_taken |-> f.results, requires_approval |-> f.final.requires_approval,
   session_id |-> f.session_id, error |-> "none"]

\* The mapping its except clause returns.
ErrorResponseWithoutSession(f, e) ==
  [keys |-> ErrorKeys, message |-> ErrorText, reasoning |-> "none",
   actions_taken |-> << >>, requires_approval |-> FALSE,
   session_id |-> "none", error |-> e]

ErrorResponse(f, e) ==
  [keys |-> ErrorKeys, message |-> ErrorText, reasoning |-> "none",
   actions_taken |-> << >>, requires_approval |-> FALSE,
   session_id |-> f.session_id, error |-> e]

\* Every storage, model and tool call of the handlers is a blocking call (boto3)
\* inside a coroutine, so the event loop runs one handler to its end before it
\* starts the next: a call starts only when no other call is under way.
\* A second process of the service, sharing the tables, runs its own handlers
\* meanwhile.
UnderWay ==
  {<<"process_message", r>> : r \in {q \in Req : pm[q].pc \notin {"idle", "returned"}}}
    \cup {<<"approve_action", a>> :
            a \in {q \in Apr : ap[q].pc \notin {"idle", "returned"}}}

Busy == Cardinality(UnderWay) >= replicas

\* process_message is called and reads the history; a failed query is logged
\* by the store and read as an empty history.
ProcessMessageSkippingUserStore(r, s) ==
  /\ ~Busy
  /\ pm[r].pc = "idle"
  /\ \A q \in Req : q < r => pm[q].pc # "idle"
  /\ \E ok \in BOOLEAN :
       pm' = [pm EXCEPT ![r] =
                [@ EXCEPT !.pc = "reason", !.session_id = s,
                          !.message = UserText(r),
                          !.history = IF ok
                                        THEN DurableQuery(conversations_table, s,
                                                          DefaultLimit)
                                        ELSE << >>]]
  /\ AgentOnly
  /\ UNCHANGED << now, ENABLE_HUMAN_APPROVAL, tools, conversations_table,
                  sessions_table, actions_table, ap, calls, attempts >>

ProcessMessage(r, s) ==
  /\ ~Busy
  /\ pm[r].pc = "idle"
  /\ \A q \in Req : q < r => pm[q].pc # "idle"
  /\ \E ok \in BOOLEAN :
       pm' = [pm EXCEPT ![r] =
                [@ EXCEPT !.pc = "add_user", !.session_id = s,
                          !.message = UserText(r),
                          !.history = IF ok
                                        THEN DurableQuery(conversations_table, s,
                                                          DefaultLimit)
                                        ELSE << >>]]
  /\ AgentOnly
  /\ UNCHANGED << now, ENABLE_HUMAN_APPROVAL, tools, conversations_table,
                  sessions_table, actions_table, ap, calls, attempts >>

\* ConversationStore.add_message as process_message calls it: both writes, or
\* an exception at the first or at the second write, re-raised to the caller.
AddMessage(r, role, content, nextpc) ==
  LET s  == pm[r].session_id
      ct == DurablePutMessage(conversations_table, s, role, content, now)
  IN  \E fail \in {"none", "conversations", "sessions"} :
        /\ conversations_table' = IF fail = "conversations"
                                    THEN conversations_table ELSE ct
        /\ sessions_table' = IF fail = "none"
                               THEN DurablePutSession(sessions_table, ct, s, now)
                               ELSE sessions_table
        /\ pm' = [pm EXCEPT ![r] =
                    IF fail = "none"
                      THEN IF nextpc = "done"
                             THEN [@ EXCEPT !.pc = "done", !.writes = Append(@, role),
                                            !.response = OkResponse(pm[r])]
                             ELSE [@ EXCEPT !.pc = nextpc, !.writes = Append(@, role)]
                      ELSE [@ EXCEPT !.pc = "done",
                                     !.writes = IF fail = "sessions"
                                                  THEN Append(@, role) ELSE @,
                                     !.store_failures = @ \cup {"add_message"},
                                     !.response = ErrorResponse(pm[r], "storage error")]]

AddUserMessage(r) ==
  /\ pm[r].pc = "add_user"
  /\ AddMessage(r, "user", pm[r].message, "reason")
  /\ AgentOnly
  /\ UNCHANGED << now, ENABLE_HUMAN_APPROVAL, tools, actions_table, ap, calls, attempts >>

\* One external call a process_message call makes, as its log keeps it: the
\* operation called, the method that calls it, and the plan step it is for.
Attempt(api, by, step) == [api |-> api, by |-> by, step |-> step]

\* reason calls invoke_model once, unless it raised before the call (the
\* prompt is built first); an exception of the call is caught, not retried.
ReasonAttempts(out) ==
  IF out.kind = "raise" THEN << >> ELSE << Attempt("invoke_model", "reason", 0) >>

\* The frame after the call: an exception of reason, or of _execute_plan's for
\* statement, goes to process_message's except clause; a list of steps goes to
\* _execute_plan's loop, or past it when the list is empty.
AfterReasonSwallowing(f, out) ==
  IF out.kind = "raise"
    THEN [f EXCEPT !.plan = << >>, !.idx = 1, !.pc = "narrate"]
  ELSE IF out.kind = "bad_plan"
    THEN [f EXCEPT !.pc = "done", !.reasoning = "reasoning",
                   !.response = ErrorResponse(f, "plan error")]
  ELSE [f EXCEPT !.reasoning = "reasoning", !.plan = out.plan, !.idx = 1,
                 !.pc = IF out.plan = << >> THEN "narrate" ELSE "execute"]

AfterReason(f, out) ==
  IF out.kind = "raise"
    THEN [f EXCEPT !.pc = "done", !.response = ErrorResponse(f, "reasoning error")]
  ELSE IF out.kind = "bad_plan"
    THEN [f EXCEPT !.pc = "done", !.reasoning = "reasoning",
                   !.response = ErrorResponse(f, "plan error")]
  ELSE [f EXCEPT !.reasoning = "reasoning", !.plan = out.plan, !.idx = 1,
                 !.pc = IF out.plan = << >> THEN "narrate" ELSE "execute"]

Reason(r) ==
  /\ pm[r].pc = "reason"
  /\ \E out \in model_answers :
       /\ pm' = [pm EXCEPT ![r] = AfterReason(pm[r], out)]
       /\ attempts' = [attempts EXCEPT ![r] = @ \o ReasonAttempts(out)]
  /\ AgentOnly
  /\ UNCHANGED << now, ENABLE_HUMAN_APPROVAL, tools, conversations_table,
                  sessions_table, actions_table, ap, calls >>

\* One invocation of ToolRegistry.execute_tool, as the log keeps it.
Call(caller, frame, idx, key, step, tool_input, outcome) ==
  [caller |-> caller, frame |-> frame, step |-> idx, key |-> key,
   action |-> step, tool_name |-> step.tool, tool_input |-> tool_input,
   outcome |-> outcome,
   result |-> IF outcome = "ok" THEN Payload(step.tool, tool_input) ELSE NoResult]

\* What execute_tool can do for a name: "not_found" when it is not registered,
\* otherwise the tool returns its payload or raises.
OutcomesWithoutLookup(tool_name) == {"ok", "raise"}

Outcomes(tool_name) ==
  IF tool_name \in RegisteredNames(tools) THEN {"ok", "raise"} ELSE {"not_found"}

\* _execute_plan calls execute_tool once for a step it dispatches, whatever
\* comes of the call.
ToolAttemptsRetrying(idx, outcome) ==
  IF outcome = "raise"
    THEN << Attempt("execute_tool", "_execute_plan", idx),
            Attempt("execute_tool", "_execute_plan", idx) >>
    ELSE << Attempt("execute_tool", "_execute_plan", idx) >>

ToolAttempts(idx, outcome) == << Attempt("execute_tool", "_execute_plan", idx) >>

\* _store_pending_action raised: the exception is caught as any exception of
\* the step is.
AfterStoreFailurePending(f, tool_name) == Record(f, PendingEntry(tool_name))

AfterStoreFailure(f, tool_name) ==
  HandleStepException(f, tool_name, "put_item failed")

\* One iteration of _execute_plan's loop, for plan[idx].
ExecuteStep(r) ==
  /\ pm[r].pc = "execute"
  /\ LET f          == pm[r]
         step       == f.plan[f.idx]
         tool_name  == step.tool
         tool_input == StepInput(step)
     IN  IF Gated(step)
           THEN \E stored \in BOOLEAN :
                  /\ actions_table' =
                       IF stored
                         THEN PutItem(actions_table,
                                      ActionKey(f.session_id, ActionId(f.session_id, now)),
                                      PendingItem(f.session_id, step, now))
                         ELSE actions_table
                  /\ pm' = [pm EXCEPT ![r] =
                              IF stored THEN Record(f, PendingEntry(tool_name))
                              ELSE AfterStoreFailure(f, tool_name)]
                  /\ calls' = calls
                  /\ attempts' = [attempts EXCEPT ![r] =
                                    Append(@, Attempt("put_item",
                                                      "_store_pending_action", f.idx))]
           ELSE \E outcome \in Outcomes(tool_name) :
                  LET call == Call("_execute_plan", r, f.idx, NoKey, step,
                                   tool_input, outcome)
                  IN  /\ calls' = calls \cup {call}
                      /\ pm' = [pm EXCEPT ![r] =
                                  IF outcome = "ok"
                                    THEN Record(f, SuccessEntry(tool_name, call.result))
                                    ELSE HandleStepException(f, tool_name, outcome)]
                      /\ actions_table' = actions_table
                      /\ attempts' = [attempts EXCEPT ![r] =
                                        @ \o ToolAttempts(f.idx, outcome)]
  /\ AgentOnly
  /\ UNCHANGED << now, ENABLE_HUMAN_APPROVAL, tools, conversations_table,
                  sessions_table, ap >>

\* _generate_response
Narrate(r) ==
  /\ pm[r].pc = "narrate"
  /\ \E ok \in BOOLEAN :
       pm' = [pm EXCEPT ![r] =
                [@ EXCEPT !.final = GenerateResponse(r, pm[r].results, ok),
                          !.pc = "add_assistant"]]
  /\ attempts' = [attempts EXCEPT ![r] =
                    Append(@, Attempt("invoke_model", "_generate_response", 0))]
  /\ AgentOnly
  /\ UNCHANGED << now, ENABLE_HUMAN_APPROVAL, tools, conversations_table,
                  sessions_table, actions_table, ap, calls >>

\* The assistant message is stored and process_message returns.
AddAssistantMessage(r) ==
  /\ pm[r].pc = "add_assistant"
  /\ AddMessage(r, "assistant", pm[r].final.message, "done")
  /\ AgentOnly
  /\ UNCHANGED << now, ENABLE_HUMAN_APPROVAL, tools, actions_table, ap, calls, attempts >>

\* POST /chat: ChatResponse(**result) needs message, reasoning, actions_taken,
\* requires_approval, session_id and timestamp; a mapping without one of them
\* fails validation, and the route's except clause answers HTTP 500.
ChatFields == OkKeys

chat(response) ==
  IF ChatFields \subseteq response.keys
    THEN [status |-> 200, keys |-> ChatFields]
    ELSE [status |-> 500, keys |-> {"detail"}]

\* The response has gone to the route, the route has answered; the call frame
\* is gone, and with it the record of the invocations it made.
Return(r) ==
  /\ pm[r].pc = "done"
  /\ pm' = [pm EXCEPT ![r] =
              [IdlePm EXCEPT !.pc = "returned", !.http = chat(pm[r].response)]]
  /\ calls' = {c \in calls : ~(c.caller = "_execute_plan" /\ c.frame = r)}
  /\ attempts' = [attempts EXCEPT ![r] = << >>]
  /\ AgentOnly
  /\ UNCHANGED << now, ENABLE_HUMAN_APPROVAL, tools, conversations_table,
                  sessions_table, actions_table, ap >>

\* ------------------------------------------------------------- approve_action

\* The action ids approve_action is called with for session s: the ids the
\* session's own steps can get, and the id of each session's kept action.
ActionIds(s) ==
  {ActionId(s, t) : t \in Clock} \cup {ActionId(o, -2) : o \in Sessions}

\* table.get_item: approve_action is called; without an item it returns
\* {"error": "Action not found"}.
NotFoundResult == <<"error", "Action not found">>

\* POST /approve-action: the route returns what approve_action returned, and
\* its except clause answers an exception with HTTP 500.
approve_action_route_swallowing(f) == [status |-> 200, body |-> f.result]

approve_action_route(f) ==
  IF f.raised # "none"
    THEN [status |-> 500, body |-> <<"detail", f.raised>>]
    ELSE [status |-> 200, body |-> f.result]

\* approve_action has ended, by returning or by raising, and the route answers.
Answered(f) ==
  [f EXCEPT !.pc = "done", !.http = approve_action_route(f).status]

ApproveActionUpserting(a, s, action_id) ==
  /\ ~Busy
  /\ ap[a].pc = "idle"
  /\ \A q \in Apr : q < a => ap[q].pc # "idle"
  /\ LET key == ActionKey(s, action_id)
     IN  /\ ap' = [ap EXCEPT ![a] =
                    IF key \in DOMAIN actions_table
                      THEN [@ EXCEPT !.pc = "execute", !.session_id = s,
                                     !.action_id = action_id,
                                     !.action = JsonLoads(actions_table[key].action)]
                      ELSE Answered([@ EXCEPT !.session_id = s,
                                               !.action_id = action_id,
                                               !.result = NotFoundResult])]
         /\ actions_table' =
              IF key \in DOMAIN actions_table THEN actions_table
              ELSE PutItem(actions_table, key,
                           [PendingItem(s, NoStep, now) EXCEPT
                              !.action_id = action_id, !.status = "executed",
                              !.executed_at = now])
  /\ AgentOnly
  /\ UNCHANGED << now, ENABLE_HUMAN_APPROVAL, tools, conversations_table,
                  sessions_table, pm, calls, attempts >>

ApproveAction(a, s, action_id) ==
  /\ ~Busy
  /\ ap[a].pc = "idle"
  /\ \A q \in Apr : q < a => ap[q].pc # "idle"
  /\ LET key == ActionKey(s, action_id)
     IN  ap' = [ap EXCEPT ![a] =
                  IF key \in DOMAIN actions_table
                    THEN [@ EXCEPT !.pc = "execute", !.session_id = s,
                                   !.action_id = action_id,
                                   !.action = JsonLoads(actions_table[key].action)]
                    ELSE Answered([@ EXCEPT !.session_id = s,
                                             !.action_id = action_id,
                                             !.result = NotFoundResult])]
  /\ AgentOnly
  /\ UNCHANGED << now, ENABLE_HUMAN_APPROVAL, tools, conversations_table,
                  sessions_table, actions_table, pm, calls, attempts >>

\* execute_tool(action['tool'], action['input']); an exception leaves
\* approve_action, and action['input'] is a KeyError when the stored step has
\* no "input".
ApproveExecute(a) ==
  /\ ap[a].pc = "execute"
  /\ LET f    == ap[a]
         step == f.action
     IN  IF step.input = NoInput
           THEN /\ calls' = calls
                /\ ap' = [ap EXCEPT ![a] =
                            Answered([@ EXCEPT !.raised = "KeyError"])]
           ELSE \E outcome \in Outcomes(step.tool) :
                  LET call == Call("approve_action", a, 0,
                                   ActionKey(f.session_id, f.action_id), step,
                                   step.input, outcome)
                  IN  /\ calls' = calls \cup {call}
                      /\ ap' = [ap EXCEPT ![a] =
                                  IF outcome = "ok"
                                    THEN [@ EXCEPT !.pc = "update",
                                                   !.result = call.result]
                                    ELSE Answered([@ EXCEPT !.raised = outcome])]
  /\ AgentOnly
  /\ UNCHANGED << now, ENABLE_HUMAN_APPROVAL, tools, conversations_table,
                  sessions_table, actions_table, pm, attempts >>

\* table.update_item: SET status = 'executed', executed_at = now; the tool's
\* result is returned.
ApproveUpdate(a) ==
  /\ ap[a].pc = "update"
  /\ LET key == ActionKey(ap[a].session_id, ap[a].action_id)
     IN  actions_table' =
           [actions_table EXCEPT ![key] =
              [@ EXCEPT !.status = "executed", !.executed_at = now]]
  /\ ap' = [ap EXCEPT ![a] = Answered(@)]
  /\ AgentOnly
  /\ UNCHANGED << now, ENABLE_HUMAN_APPROVAL, tools, conversations_table,
                  sessions_table, pm, calls, attempts >>

ApproveReturn(a) ==
  /\ ap[a].pc = "done"
  /\ ap' = [ap EXCEPT ![a] =
              [IdleAp EXCEPT !.pc = "returned"]]
  /\ calls' = {c \in calls : ~(c.caller = "approve_action" /\ c.frame = a)}
  /\ AgentOnly
  /\ UNCHANGED << now, ENABLE_HUMAN_APPROVAL, tools, conversations_table,
                  sessions_table, actions_table, pm, attempts >>

\* ------------------------------------------------------------- specification

AgentNext ==
  \/ Tick
  \/ \E r \in Req, s \in Sessions : ProcessMessage(r, s)
  \/ \E r \in Req : AddUserMessage(r)
  \/ \E r \in Req : Reason(r)
  \/ \E r \in Req : ExecuteStep(r)
  \/ \E r \in Req : Narrate(r)
  \/ \E r \in Req : AddAssistantMessage(r)
  \/ \E a \in Apr, s \in Sessions : \E id \in ActionIds(s) : ApproveAction(a, s, id)
  \/ \E a \in Apr : ApproveExecute(a)
  \/ \E a \in Apr : ApproveUpdate(a)
  \/ \E r \in Req : Return(r)
  \/ \E a \in Apr : ApproveReturn(a)

Spec == AgentInit /\ [][AgentNext]_vars

\* The loop of _execute_plan runs inside one coroutine that nothing cancels:
\* the call of an iteration returns or raises, and the next iteration follows.
FairSpec == Spec /\ WF_vars(\E r \in Req : ExecuteStep(r))

\* ------------------------------------------- the service over kept tables

\* The DynamoDB tables outlive the process: what an earlier run left for each
\* session is there when the agent starts.  Each session has had one exchange,
\* and session s1 holds one PendingAction.  Over these tables one
\* process_message call and one approve_action call are followed.
SeedStep ==
  [tool |-> "aws_infrastructure", input |-> "list_ec2", requires_approval |-> TRUE]

SeedConversations ==
  [k \in Sessions \X PastClock |->
     IF k[2] = -3
       THEN [role |-> "user", content |-> <<"user text", 0>>, timestamp |-> k[2]]
       ELSE [role |-> "assistant", content |-> <<"narration", 0>>,
             timestamp |-> k[2]]]

SeedSessions ==
  [s \in Sessions |->
     [last_activity |-> -2, message_count |-> MessageCount(SeedConversations, s)]]

SeedActions ==
  [k \in {ActionKey("s1", ActionId("s1", -2))} |-> PendingItem(k[1], SeedStep, -2)]

SeededInit ==
  /\ StoreIdle /\ RegistryIdle /\ ParseIdle /\ DeployIdle
  /\ now = 0
  /\ ENABLE_HUMAN_APPROVAL = TRUE
  /\ tools = initialize
  /\ conversations_table = SeedConversations
  /\ sessions_table = SeedSessions
  /\ actions_table = SeedActions
  /\ pm = PmFrames({1})
  /\ ap = ApFrames({1})
  /\ calls = {}

SeededSpec == SeededInit /\ [][AgentNext]_vars

\* ------------------------------------------------- several calls on the tables

\* What the planning model answers where two process_message calls are
\* followed: a plan without steps, or the plan of one gated step.
FewAnswers ==
  {[kind |-> "plan", plan |-> p] : p \in {<< >>, <<SeedStep>>}}

\* One process of the service, on which two process_message calls and one
\* approve_action call are made, one after the other, in any order.
SequentialInit ==
  /\ StoreIdle /\ RegistryIdle /\ ParseIdle
  /\ replicas = 1
  /\ model_answers = FewAnswers
  /\ attempts = [r \in Req |-> << >>]
  /\ now = 0
  /\ ENABLE_HUMAN_APPROVAL = TRUE
  /\ tools = initialize
  /\ conversations_table = << >>
  /\ sessions_table = << >>
  /\ actions_table = << >>
  /\ pm = PmFrames(Req)
  /\ ap = ApFrames({1})
  /\ calls = {}

SequentialSpec == SequentialInit /\ [][AgentNext]_vars

\* Two processes of the service behind one address share the three tables:
\* each runs one handler at a time, so two calls can be under way at once and
\* interleave at their storage, model and tool calls.  Two process_message
\* calls are followed, and no approve_action call.
ConcurrentInit ==
  /\ StoreIdle /\ RegistryIdle /\ ParseIdle
  /\ replicas = 2
  /\ model_answers = FewAnswers
  /\ attempts = [r \in Req |-> << >>]
  /\ now = 0
  /\ ENABLE_HUMAN_APPROVAL = TRUE
  /\ tools = initialize
  /\ conversations_table = << >>
  /\ sessions_table = << >>
  /\ actions_table = << >>
  /\ pm = PmFrames(Req)
  /\ ap = ApFrames({})
  /\ calls = {}

ChatNext ==
  \/ Tick
  \/ \E r \in Req, s \in Sessions : ProcessMessage(r, s)
  \/ \E r \in Req : AddUserMessage(r)
  \/ \E r \in Req : Reason(r)
  \/ \E r \in Req : ExecuteStep(r)
  \/ \E r \in Req : Narrate(r)
  \/ \E r \in Req : AddAssistantMessage(r)
  \/ \E r \in Req : Return(r)

ConcurrentSpec == ConcurrentInit /\ [][ChatNext]_vars

\* ------------------------------------------------------ properties of the agent

GatedSteps(plan) == {i \in 1..Len(plan) : Gated(plan[i])}
\* The frame holds a plan (reason has returned); _execute_plan has returned.
Live(r) == pm[r].idx >= 1
AfterExecutePlan(r) == Live(r) /\ pm[r].pc # "execute"
PlanCalls(r, i) ==
  {c \in calls : c.caller = "_execute_plan" /\ c.frame = r /\ c.step = i}
StoredKeys == DOMAIN actions_table

\* C1: with approval-gating enabled, execute_tool is invoked for a step with
\* requires_approval=true only inside an approve_action call whose
\* (session_id, action_id) is the key the step is stored under: never by
\* _execute_plan, and never before that approve_action call began.
C1_GatedToolOnlyOnApproval ==
  [][ENABLE_HUMAN_APPROVAL =>
       \A c \in calls' \ calls :
         c.action.requires_approval =>
           /\ c.caller = "approve_action"
           /\ \E a \in Apr :
                /\ ap[a].pc = "execute"
                /\ c.frame = a
                /\ c.key = ActionKey(ap[a].session_id, ap[a].action_id)
           /\ c.key \in StoredKeys
           /\ JsonLoads(actions_table[c.key].action) = c.action]_vars

C1_Witness ==
  /\ ENABLE_HUMAN_APPROVAL
  /\ \E c \in calls :
       /\ c.caller = "approve_action"
       /\ c.action.requires_approval
       /\ c.outcome = "ok"
       /\ actions_table[c.key].status = "executed"

\* C2 (as claimed): once _execute_plan has returned, and every gated step was
\* answered with pending_approval, the actions table holds one pending
\* PendingAction per gated step of the plan, no two sharing an action_id.
C2_OnePendingActionPerGatedStep ==
  \A r \in Req :
    ( /\ AfterExecutePlan(r)
      /\ \A i \in GatedSteps(pm[r].plan) :
           pm[r].results[i].status = "pending_approval" )
    => Cardinality({k \in StoredKeys : actions_table[k].status = "pending"})
         = Cardinality(GatedSteps(pm[r].plan))

\* The entry _execute_plan owes step i of frame r, whatever went before it.
EntryFits(r, i) ==
  LET step  == pm[r].plan[i]
      entry == pm[r].results[i]
  IN  /\ entry.tool = step.tool
      /\ IF Gated(step)
           THEN /\ entry.status \in {"pending_approval", "error"}
                /\ PlanCalls(r, i) = {}
           ELSE \E c \in PlanCalls(r, i) :
                  /\ PlanCalls(r, i) = {c}
                  /\ c.tool_name = step.tool
                  /\ c.tool_input = StepInput(step)
                  /\ entry.status = IF c.outcome = "ok" THEN "success" ELSE "error"

\* C3: a tool that raises at step i gives step i an entry of status "error",
\* and every later step is still processed, each getting the entry its own
\* step calls for: after _execute_plan there is one entry per step.
C3_StepIsolation ==
  \A r \in Req :
    Live(r) =>
      /\ Len(pm[r].results) = pm[r].idx - 1
      /\ AfterExecutePlan(r) => Len(pm[r].results) = Len(pm[r].plan)
      /\ \A i \in 1..Len(pm[r].results) :
           /\ EntryFits(r, i)
           /\ (\E c \in PlanCalls(r, i) : c.outcome = "raise")
                => pm[r].results[i].status = "error"

C3_Witness ==
  \E r \in Req :
    /\ AfterExecutePlan(r)
    /\ Len(pm[r].plan) = 2
    /\ \E c \in PlanCalls(r, 1) : c.outcome = "raise"
    /\ pm[r].results[1].status = "error"
    /\ pm[r].results[2].status = "success"

\* C4: approve_action for a key with no PendingAction returns
\* {error: 'Action not found'} and changes nothing: no tool call, no change to
\* the actions table, no message written.
C4_ApproveUnknownHasNoEffect ==
  [][\A a \in Apr :
       LET key == ActionKey(ap'[a].session_id, ap'[a].action_id)
       IN  /\ (ap[a].pc = "idle" /\ ap'[a].pc # "idle" /\ key \notin StoredKeys)
                => /\ ap'[a].pc = "done"
                   /\ ap'[a].result = NotFoundResult
                   /\ ap'[a].raised = "none"
                   /\ UNCHANGED << actions_table, calls, conversations_table,
                                   sessions_table >>
           /\ (ap[a].pc = "done" /\ ap[a].result = NotFoundResult
                 /\ ap'[a] # ap[a])
                => /\ ap'[a].pc = "returned"
                   /\ UNCHANGED << actions_table, calls, conversations_table,
                                   sessions_table >>]_vars

C4_Witness ==
  \E a \in Apr :
    /\ ap[a].pc = "done"
    /\ ap[a].result = NotFoundResult
    /\ StoredKeys # {}

\* C7 (as claimed): a response that carries actions_taken has requires_approval
\* true exactly when some entry of actions_taken is pending_approval.
C7_RequiresApprovalIffPending ==
  \A r \in Req :
    (pm[r].pc = "done" /\ "actions_taken" \in pm[r].response.keys)
      => (pm[r].response.requires_approval
            <=> AnyPending(pm[r].response.actions_taken))

\* C8: a step that is not gated is dispatched to execute_tool by _execute_plan
\* with the step's tool and input, stores no PendingAction, and when the tool
\* returns is recorded as success with the tool's payload as it came; a
\* one-step plan of that kind answers with one success entry and
\* requires_approval = false.
C8_UngatedStepExecutes ==
  \A r \in Req :
    Live(r) =>
      /\ \A i \in 1..Len(pm[r].results) :
           ~Gated(pm[r].plan[i]) =>
             \E c \in PlanCalls(r, i) :
               /\ c.tool_name = pm[r].plan[i].tool
               /\ c.tool_input = StepInput(pm[r].plan[i])
               /\ c.outcome = "ok" =>
                    pm[r].results[i] =
                      [tool |-> pm[r].plan[i].tool, status |-> "success",
                       result |-> c.result, error |-> "none", message |-> "none"]
      /\ Cardinality(StoredKeys)
           <= Cardinality({i \in 1..Len(pm[r].results) : Gated(pm[r].plan[i])})
      /\ \A k \in StoredKeys : Gated(JsonLoads(actions_table[k].action))
      /\ ( /\ pm[r].pc = "done"
           /\ pm[r].response.keys = OkKeys
           /\ Len(pm[r].plan) = 1
           /\ ~Gated(pm[r].plan[1])
           /\ \E c \in PlanCalls(r, 1) : c.outcome = "ok" )
         => /\ Len(pm[r].response.actions_taken) = 1
            /\ pm[r].response.actions_taken[1].status = "success"
            /\ pm[r].response.requires_approval = FALSE

C8_Witness ==
  \E r \in Req :
    /\ pm[r].pc = "done"
    /\ pm[r].response.keys = OkKeys
    /\ Len(pm[r].plan) = 1
    /\ pm[r].plan[1].requires_approval
    /\ ~ENABLE_HUMAN_APPROVAL
    /\ pm[r].response.actions_taken[1].status = "success"
    /\ pm[r].response.actions_taken[1].result =
         Payload(pm[r].plan[1].tool, pm[r].plan[1].input)
    /\ pm[r].response.requires_approval = FALSE
    /\ StoredKeys = {}

\* ------------------------------------------------- the two conversation stores

Roles == {"user", "assistant"}
Contents == {"hello", "bye"}
Limits == 0..MaxLimit \cup {DefaultLimit}

\* Python's q[start:], start counted from the end when negative.
PySliceFrom(q, start) ==
  LET from == IF start < 0
                THEN (IF Len(q) + start < 0 THEN 0 ELSE Len(q) + start)
                ELSE (IF start > Len(q) THEN Len(q) ELSE start)
  IN  SubSeq(q, from + 1, Len(q))

\* MemoryConversationStore.get_history: messages[-limit:] if messages else [].
MemGetHistory(convs, session_id, limit) ==
  LET messages == convs[session_id]
  IN  IF messages # << >> THEN PySliceFrom(messages, 0 - limit) ELSE << >>

\* The (role, content) pairs of a history.
RoleContent(history) ==
  [i \in 1..Len(history) |->
     [role |-> history[i].role, content |-> history[i].content]]

AddsSoFar == Len(added["s1"]) + Len(added["s2"])

StoreOnly ==
  UNCHANGED << ENABLE_HUMAN_APPROVAL, tools, actions_table, pm, ap, calls,
               attempts, deployVars, registryVars, parseVars >>

StoreInit ==
  /\ StoreIdle /\ RegistryIdle /\ ParseIdle /\ DeployIdle
  /\ now = 0
  /\ ENABLE_HUMAN_APPROVAL = TRUE
  /\ tools = initialize
  /\ conversations_table = << >>
  /\ sessions_table = << >>
  /\ actions_table = << >>
  /\ pm = [r \in Req |-> IdlePm]
  /\ ap = [a \in Apr |-> IdleAp]
  /\ calls = {}

StoreTick ==
  /\ now < MaxClock
  /\ now' = now + 1
  /\ UNCHANGED << conversations_table, sessions_table, storeVars >>
  /\ StoreOnly

\* add_message on both stores, with the same arguments and the same clock.
StoreAddMessage(s, role, content) ==
  /\ AddsSoFar < MaxAdds
  /\ LET message == [role |-> role, content |-> content, timestamp |-> now]
         ct      == DurablePutMessage(conversations_table, s, role, content, now)
     IN  /\ conversations' = [conversations EXCEPT ![s] = Append(@, message)]
         /\ sessions' = PutItem(sessions, s,
                                [last_activity |-> now,
                                 message_count |-> Len(conversations[s]) + 1])
         /\ conversations_table' = ct
         /\ sessions_table' = DurablePutSession(sessions_table, ct, s, now)
  /\ added' = [added EXCEPT ![s] = Append(@, [role |-> role, content |-> content])]
  /\ UNCHANGED << now, history_result >>
  /\ StoreOnly

\* get_history on both stores.
StoreGetHistory(s, limit) ==
  /\ history_result' =
       [session_id |-> s, limit |-> limit,
        memory  |-> RoleContent(MemGetHistory(conversations, s, limit)),
        durable |-> RoleContent(DurableQuery(conversations_table, s, limit))]
  /\ UNCHANGED << now, conversations_table, sessions_table, conversations,
                  sessions, added >>
  /\ StoreOnly

StoreNext ==
  \/ StoreTick
  \/ \E s \in Sessions, role \in Roles, content \in Contents :
       StoreAddMessage(s, role, content)
  \/ \E s \in Sessions, limit \in Limits : StoreGetHistory(s, limit)

StoreSpec == StoreInit /\ [][StoreNext]_vars

\* C5 (as claimed): get_history(session, limit) of the in-memory store returns
\* the min(N, limit) most recently added messages of the session, in the
\* order they were added, for every limit >= 0.
C5_MemoryHistoryIsLastLimit ==
  history_result.session_id \in Sessions =>
    history_result.memory =
      LastN(added[history_result.session_id], history_result.limit)

\* C6 (as claimed): the durable store's get_history returns the same
\* (role, content) list as the in-memory store fed the same add_message calls.
C6_DurableEqualsMemory ==
  \A s \in Sessions :
    RoleContent(DurableQuery(conversations_table, s, DefaultLimit))
      = RoleContent(MemGetHistory(conversations, s, DefaultLimit))

\* ------------------------------------------------------------ the tool registry

\* Tools a caller can hand to register_tool: another object of a startup
\* tool's class, or a tool under a new name.
ExtraTools ==
  {ToolObject(n, id) : n \in {"aws_infrastructure", "code_analysis", "custom_tool"},
                       id \in {1, 2}}

Initialized == \E i \in 1..Len(registered) : registered[i].id = 0
ExtraCalls == Cardinality({i \in 1..Len(registered) : registered[i].id # 0})

RegistryOnly ==
  UNCHANGED << now, ENABLE_HUMAN_APPROVAL, conversations_table, sessions_table,
               actions_table, pm, ap, calls, attempts, deployVars, storeVars,
               parseVars >>

\* ToolRegistry.__init__: self.tools = {}.
RegistryInit ==
  /\ StoreIdle /\ ParseIdle /\ DeployIdle
  /\ registered = << >>
  /\ tools = << >>
  /\ now = 0
  /\ ENABLE_HUMAN_APPROVAL = TRUE
  /\ conversations_table = << >>
  /\ sessions_table = << >>
  /\ actions_table = << >>
  /\ pm = [r \in Req |-> IdlePm]
  /\ ap = [a \in Apr |-> IdleAp]
  /\ calls = {}

\* ToolRegistry.initialize: the six register_tool calls.
RegistryInitialize ==
  /\ ~Initialized
  /\ tools' = RegisterAll(tools, StartupTools, 1)
  /\ registered' =
       registered \o [i \in 1..Len(StartupTools) |-> ToolObject(StartupTools[i], 0)]
  /\ RegistryOnly

\* A further register_tool call.
RegistryRegister(tool) ==
  /\ ExtraCalls < MaxRegisterCalls
  /\ tools' = register_tool(tools, tool)
  /\ registered' = Append(registered, tool)
  /\ RegistryOnly

RegistryNext ==
  \/ RegistryInitialize
  \/ \E tool \in ExtraTools : RegistryRegister(tool)

RegistrySpec == RegistryInit /\ [][RegistryNext]_vars

DeclaredNames == {registered[i].name : i \in 1..Len(registered)}
LastRegistered(name) ==
  registered[CHOOSE i \in 1..Len(registered) :
               /\ registered[i].name = name
               /\ \A j \in (i + 1)..Len(registered) : registered[j].name # name]

\* C10: get_tool_definitions returns one definition per registered name, with
\* no name twice and none missing (after initialize: all six, among them
\* aws_infrastructure and code_analysis); the tool kept under a name is the
\* one registered last, so registering a name again adds no definition.
C10_RegistryRoundTrip ==
  LET defs == get_tool_definitions(tools)
  IN  /\ Len(defs) = Cardinality(DeclaredNames)
      /\ \A n \in DeclaredNames :
           /\ Cardinality({i \in 1..Len(defs) : defs[i].name = n}) = 1
           /\ tools[IndexOfName(tools, n, 1)][2] = LastRegistered(n)
      /\ \A i \in 1..Len(defs) : defs[i].name \in DeclaredNames
      /\ Initialized =>
           \A k \in 1..Len(StartupTools) :
             \E i \in 1..Len(defs) : defs[i].name = StartupTools[k]

C10_Witness ==
  /\ Initialized
  /\ registered[Len(registered)].name = "aws_infrastructure"
  /\ registered[Len(registered)].id = 2
  /\ Len(get_tool_definitions(tools)) = Len(StartupTools)
  /\ tools[IndexOfName(tools, "aws_infrastructure", 1)][2].id = 2

\* ------------------------------------------------------ _parse_reasoning_output

\* A response text is a sequence of atoms, each standing for a piece of text:
\*   "F"   the fence ```                "j"  the word json
\*   "O1"  {"reasoning":"a","plan":[s]} "O2" {}
\*   "S"   {"reasoning":"```"}          "n"  null
\*   "O3"  {"plan":null}                "_"  one whitespace character
\* Offsets are counted in atoms; every offset find() can return falls between
\* two atoms once "S" is split into its three pieces.
Atoms == {"F", "j", "O1", "O2", "O3", "S", "n", "_"}
Texts == SeqsUpTo(Atoms, MaxLen)

RECURSIVE Expand(_)
Expand(text) ==
  IF text = << >> THEN << >>
  ELSE (IF Head(text) = "S" THEN <<"S1", "F", "S2">> ELSE <<Head(text)>>)
         \o Expand(Tail(text))

MinOf(S) == CHOOSE x \in S : \A y \in S : x <= y
MaxOf(S) == CHOOSE x \in S : \A y \in S : x >= y

\* str.find(pat, start): the first offset at or after start where pat begins,
\* or -1.
Find(t, pat, start) ==
  LET hits == {b \in start..(Len(t) - Len(pat)) :
                 SubSeq(t, b + 1, b + Len(pat)) = pat}
  IN  IF hits = {} THEN -1 ELSE MinOf(hits)

\* text.find("{") and text.rfind("}"): the atoms that begin with "{", and those
\* that end with "}" (rfind gives the offset of that last character).
FindOpenBrace(t) ==
  LET hits == {b \in 0..(Len(t) - 1) : t[b + 1] \in {"O1", "O2", "O3", "S1"}}
  IN  IF hits = {} THEN -1 ELSE MinOf(hits)

RFindCloseBraceEnd(t) ==
  LET hits == {b \in 1..Len(t) : t[b] \in {"O1", "O2", "O3", "S2"}}
  IN  IF hits = {} THEN 0 ELSE MaxOf(hits)

\* q without its last character: a whitespace atom goes, any other atom is cut.
DropLastChar(q) ==
  IF q = << >> THEN << >>
  ELSE IF q[Len(q)] = "_" THEN SubSeq(q, 1, Len(q) - 1)
  ELSE Append(SubSeq(q, 1, Len(q) - 1), "cut")

\* text[a:b] for the offsets the parser computes: b = -1 stops before the last
\* character, a = -1 starts at the last character.
PySlice(t, a, b) ==
  IF a = -1
    THEN (IF b = Len(t) /\ t # << >> /\ t[Len(t)] = "_" THEN <<"_">>
          ELSE IF b = Len(t) /\ t # << >> THEN <<"cut">> ELSE << >>)
  ELSE IF b = -1 THEN DropLastChar(SubSeq(t, a + 1, Len(t)))
  ELSE SubSeq(t, a + 1, b)

IsSpace(x) == x = "_"
NotSpace(x) == x # "_"

\* str.strip()
RECURSIVE LStrip(_)
LStrip(q) == IF q # << >> /\ IsSpace(Head(q)) THEN LStrip(Tail(q)) ELSE q
RECURSIVE RStrip(_)
RStrip(q) ==
  IF q # << >> /\ IsSpace(q[Len(q)]) THEN RStrip(SubSeq(q, 1, Len(q) - 1)) ELSE q
Strip(q) == RStrip(LStrip(q))

\* json.loads: whitespace around the one value is skipped; the value is one of
\* the objects, or null; anything else is a JSONDecodeError.
JsonDecode(q) ==
  LET d == SelectSeq(q, NotSpace)
  IN  IF d \in {<<"O1">>, <<"O2">>, <<"O3">>, <<"n">>} THEN d[1]
      ELSE IF d = <<"S1", "F", "S2">> THEN "S"
      ELSE "JSONDecodeError"

JsonObjects == {"O1", "O2", "O3", "S"}

\* parsed.get("reasoning", "") and parsed.get("plan", [])
GetReasoning(d) ==
  IF d = "O1" THEN <<"a">> ELSE IF d = "S" THEN <<"F">> ELSE << >>
GetPlan(d) ==
  IF d = "O1" THEN JsonList(<<"step">>)
  ELSE IF d = "O3" THEN JsonNull
  ELSE JsonList(<< >>)

\* The branches that pick json_text.
ExtractJsonText(t) ==
  IF Find(t, <<"F", "j">>, 0) # -1
    THEN LET json_start == Find(t, <<"F", "j">>, 0) + Len(<<"F", "j">>)
             json_end   == Find(t, <<"F">>, json_start)
         IN  Strip(PySlice(t, json_start, json_end))
  ELSE IF Find(t, <<"F">>, 0) # -1
    THEN LET json_start == Find(t, <<"F">>, 0) + Len(<<"F">>)
             json_end   == Find(t, <<"F">>, json_start)
         IN  Strip(PySlice(t, json_start, json_end))
  ELSE PySlice(t, FindOpenBrace(t), RFindCloseBraceEnd(t))

ParsedObject(d) ==
  [reasoning |-> GetReasoning(d), plan |-> GetPlan(d), returned |-> TRUE]
ParseFallback(text) ==
  [reasoning |-> text, plan |-> JsonList(<< >>), returned |-> TRUE]

\* _parse_reasoning_output: any exception in the try block (a decode error, or
\* .get on a value that is no object) ends in the fallback.
ParseReasoningOutput(text) ==
  LET d == JsonDecode(ExtractJsonText(Expand(text)))
  IN  IF d \in JsonObjects THEN ParsedObject(d) ELSE ParseFallback(text)

\* What reason() meets: the prompt cannot be built (json.dumps(context) on a
\* context that is not serializable, outside the try block), invoke_model
\* raises, the response body lacks the expected envelope, or the body carries a
\* text.
ModelCalls == {"prompt_error", "unreachable", "malformed", "text"}

ReasonFallback ==
  [reasoning |-> <<"Unable to complete reasoning due to an error">>,
   plan |-> JsonList(<< >>), returned |-> TRUE, raised |-> FALSE]

\* ReasoningEngine.reason
reason(call, text) ==
  IF call = "prompt_error" THEN [NoReason EXCEPT !.raised = TRUE]
  ELSE IF call \in {"unreachable", "malformed"} THEN ReasonFallback
  ELSE [reasoning |-> ParseReasoningOutput(text).reasoning,
        plan |-> ParseReasoningOutput(text).plan,
        returned |-> TRUE, raised |-> FALSE]

ParseOnly ==
  UNCHANGED << agentVars, deployVars, storeVars, registryVars >>

ParseInit ==
  /\ StoreIdle /\ RegistryIdle /\ DeployIdle
  /\ model_call \in ModelCalls
  /\ reasoning_text \in (IF model_call = "text" THEN Texts ELSE {<< >>})
  /\ parsed = NoParse
  /\ reason_result = NoReason
  /\ now = 0
  /\ ENABLE_HUMAN_APPROVAL = TRUE
  /\ tools = initialize
  /\ conversations_table = << >>
  /\ sessions_table = << >>
  /\ actions_table = << >>
  /\ pm = [r \in Req |-> IdlePm]
  /\ ap = [a \in Apr |-> IdleAp]
  /\ calls = {}

ParseCall ==
  /\ ~parsed.returned
  /\ parsed' = ParseReasoningOutput(reasoning_text)
  /\ UNCHANGED << reasoning_text, model_call, reason_result >>
  /\ ParseOnly

ReasonCall ==
  /\ ~reason_result.returned /\ ~reason_result.raised
  /\ reason_result' = reason(model_call, reasoning_text)
  /\ UNCHANGED << reasoning_text, model_call, parsed >>
  /\ ParseOnly

ParseNext == ParseCall \/ ReasonCall

ParseSpec == ParseInit /\ [][ParseNext]_vars

\* C9: when the response holds a JSON object wrapped in a ```json fenced block
\* (the first such block of the text), the parsed result is that object's
\* reasoning and that object's plan.
C9_JsonFencedObjectIsParsed ==
  parsed.returned =>
    \A i \in 1..(Len(reasoning_text) - 3) :
      ( /\ reasoning_text[i] = "F"
        /\ reasoning_text[i + 1] = "j"
        /\ reasoning_text[i + 2] \in JsonObjects
        /\ reasoning_text[i + 3] = "F"
        /\ \A k \in 1..(i - 1) :
             ~(reasoning_text[k] = "F" /\ reasoning_text[k + 1] = "j") )
      => parsed = ParsedObject(reasoning_text[i + 2])

\* --------------------------------------------- error handling of the agent

\* C11: a step that _execute_plan dispatches (it is not gated) and whose tool
\* is not in the registry gets the entry {tool, status: "error", error: tool
\* not found}; execute_tool stops at the lookup, so no tool runs for the step;
\* the loop goes on, and after _execute_plan every step has its entry.
C11_ToolNotFoundIsStepError ==
  \A r \in Req :
    Live(r) =>
      /\ Len(pm[r].results) = pm[r].idx - 1
      /\ AfterExecutePlan(r) => Len(pm[r].results) = Len(pm[r].plan)
      /\ \A i \in 1..Len(pm[r].results) :
           ( /\ ~Gated(pm[r].plan[i])
             /\ pm[r].plan[i].tool \notin RegisteredNames(tools) )
           => /\ pm[r].results[i] = ErrorEntry(pm[r].plan[i].tool, "not_found")
              /\ \A c \in PlanCalls(r, i) :
                   c.outcome = "not_found" /\ c.result = NoResult

C11_Witness ==
  \E r \in Req :
    /\ AfterExecutePlan(r)
    /\ Len(pm[r].plan) = 2
    /\ ~Gated(pm[r].plan[1])
    /\ pm[r].plan[1].tool \notin RegisteredNames(tools)
    /\ pm[r].results[1].status = "error"
    /\ pm[r].results[1].error = "not_found"
    /\ pm[r].results[2].status = "success"

\* C12 (as claimed): reason never raises; whatever the remote model call does,
\* it returns a mapping whose plan is a list of steps, and the list is empty
\* whenever planning failed (no call, no envelope, no decodable object).
C12_ReasonAlwaysReturnsAPlan ==
  (reason_result.returned \/ reason_result.raised) =>
    /\ ~reason_result.raised
    /\ reason_result.plan.type = "list"
    /\ ( \/ model_call # "text"
         \/ JsonDecode(ExtractJsonText(Expand(reasoning_text))) \notin JsonObjects )
       => reason_result.plan.items = << >>

\* C13 (as claimed): approve_action on a stored PendingAction has invoked
\* execute_tool with the stored tool name and the stored input; when the tool
\* has returned, the PendingAction is marked executed with its executed_at
\* and the tool's result is what approve_action returns.
C13_ApproveExecutesStoredAction ==
  \A a \in Apr :
    LET key == ActionKey(ap[a].session_id, ap[a].action_id)
    IN  (ap[a].pc = "done" /\ ap[a].result # NotFoundResult) =>
          /\ key \in StoredKeys
          /\ \E c \in calls :
               /\ c.caller = "approve_action" /\ c.frame = a /\ c.key = key
               /\ c.tool_name = JsonLoads(actions_table[key].action).tool
               /\ c.tool_input = StepInput(JsonLoads(actions_table[key].action))
               /\ c.outcome = "ok" =>
                    /\ actions_table[key].status = "executed"
                    /\ actions_table[key].executed_at >= actions_table[key].created_at
                    /\ ap[a].result = c.result

\* The frame is that of a call under way or just ended.
InCall(r) == pm[r].pc \notin {"idle", "returned"}

\* The history query of call r failed: the call holds an empty history though
\* the table keeps messages of its session from earlier runs.
GetHistoryFailed(r) ==
  /\ pm[r].history = << >>
  /\ \E k \in DOMAIN conversations_table :
       k[1] = pm[r].session_id /\ k[2] \in PastClock

\* C14: in a process_message call the history is read before anything is
\* appended (it is the session's history as the tables held it, without this
\* call's messages); the user message is appended before the reasoning engine
\* is invoked, the assistant message after narration and not before; a call
\* that completes normally has appended two messages to its own session, the
\* user's and then the assistant's.
C14_PersistenceOrdering ==
  /\ [](\A r \in Req :
          InCall(r) =>
            /\ ~GetHistoryFailed(r)
                 => pm[r].history =
                      DurableQuery(SeedConversations, pm[r].session_id, DefaultLimit)
            /\ \A i \in 1..Len(pm[r].history) :
                 pm[r].history[i].content \notin {pm[r].message, pm[r].final.message}
            /\ pm[r].pc = "add_user"
                 => pm[r].writes = << >> /\ pm[r].reasoning = "none"
            /\ pm[r].pc = "reason"
                 => pm[r].writes = <<"user">> /\ pm[r].reasoning = "none"
            /\ pm[r].pc \in {"execute", "narrate"}
                 => pm[r].writes = <<"user">> /\ pm[r].final.message = NoText
            /\ pm[r].pc = "add_assistant"
                 => pm[r].writes = <<"user">> /\ pm[r].final.message # NoText
            /\ (pm[r].pc = "done" /\ pm[r].response.keys = OkKeys)
                 => pm[r].writes = <<"user", "assistant">>)
  /\ [][\A r \in Req :
          (pm'[r].writes # pm[r].writes /\ pm'[r].pc # "returned") =>
            LET role == IF pm[r].pc = "add_user" THEN "user" ELSE "assistant"
                key  == <<pm[r].session_id, now>>
            IN  /\ pm[r].pc \in {"add_user", "add_assistant"}
                /\ pm'[r].writes = Append(pm[r].writes, role)
                /\ key \in DOMAIN conversations_table'
                /\ conversations_table'[key].role = role
                /\ conversations_table'[key].content =
                     (IF role = "user" THEN pm[r].message ELSE pm[r].final.message)
                /\ \A k \in DOMAIN conversations_table :
                     k # key => /\ k \in DOMAIN conversations_table'
                                /\ conversations_table'[k] = conversations_table[k]]_vars

C14_Witness ==
  \E r \in Req :
    /\ pm[r].pc = "done"
    /\ pm[r].response.keys = OkKeys
    /\ pm[r].writes = <<"user", "assistant">>
    /\ Len(pm[r].history) = 2
    /\ Len(DurableQuery(conversations_table, pm[r].session_id, DefaultLimit)) = 4

\* The user message of call r is in the conversations table.
UserMessageStored(r) ==
  \E k \in DOMAIN conversations_table :
    /\ k[1] = pm[r].session_id
    /\ conversations_table[k].role = "user"
    /\ conversations_table[k].content = pm[r].message

\* C15: when the call of the reasoning engine raises (no reasoning result
\* comes back), process_message goes straight to its error response and
\* touches nothing: no step is executed, no PendingAction is created, the
\* narration model is not called, no assistant message is written; the user
\* message stored before stays.
C15_ReasoningFailureShortCircuits ==
  /\ [][\A r \in Req :
          (pm[r].pc = "reason" /\ pm'[r] # pm[r] /\ pm'[r].reasoning = "none") =>
            /\ pm'[r] = [pm[r] EXCEPT !.pc = "done",
                                      !.response = ErrorResponse(pm[r], "reasoning error")]
            /\ UNCHANGED << conversations_table, sessions_table, actions_table,
                            calls >>]_vars
  /\ [](\A r \in Req :
          (pm[r].pc = "done" /\ pm[r].response.error = "reasoning error") =>
            /\ pm[r].response.keys = ErrorKeys
            /\ pm[r].response.message = ErrorText
            /\ pm[r].results = << >>
            /\ {c \in calls : c.caller = "_execute_plan" /\ c.frame = r} = {}
            /\ StoredKeys = {}
            /\ pm[r].final.message = NoText
            /\ pm[r].writes = <<"user">>
            /\ UserMessageStored(r)
            /\ \A k \in DOMAIN conversations_table :
                 conversations_table[k].role = "user")
  /\ [][\A r \in Req :
          (pm[r].pc = "done" /\ pm[r].response.error = "reasoning error") =>
            UNCHANGED << conversations_table, sessions_table, actions_table,
                         calls >>]_vars

C15_Witness ==
  \E r \in Req :
    /\ pm[r].pc = "done"
    /\ pm[r].response.error = "reasoning error"
    /\ UserMessageStored(r)

\* C16: when the narration model call fails, _generate_response returns the
\* fallback message and the request goes on: the assistant message is stored
\* with that text, and the response is the full one, its actions_taken being
\* the execution results collected before; only a failure of that last store
\* call can still turn the request into the error response.
C16_NarrationFailureFallsBack ==
  /\ [][\A r \in Req :
          (pm[r].pc = "narrate" /\ pm'[r] # pm[r]) =>
            /\ pm'[r].pc = "add_assistant"
            /\ pm'[r].results = pm[r].results
            /\ pm'[r].final.message \in {NarrationText(r), FallbackText}]_vars
  /\ [](\A r \in Req :
          (pm[r].pc = "done" /\ pm[r].final.message = FallbackText) =>
            IF "add_message" \in pm[r].store_failures
              THEN pm[r].response.keys = ErrorKeys
              ELSE /\ pm[r].response.keys = OkKeys
                   /\ pm[r].response.message = FallbackText
                   /\ pm[r].response.actions_taken = pm[r].results
                   /\ Len(pm[r].results) = Len(pm[r].plan)
                   /\ pm[r].writes = <<"user", "assistant">>
                   /\ \E k \in DOMAIN conversations_table :
                        /\ k[1] = pm[r].session_id
                        /\ conversations_table[k].role = "assistant"
                        /\ conversations_table[k].content = FallbackText)

C16_Witness ==
  \E r \in Req :
    /\ pm[r].pc = "done"
    /\ pm[r].final.message = FallbackText
    /\ pm[r].response.keys = OkKeys
    /\ Len(pm[r].response.actions_taken) = 2
    /\ pm[r].response.actions_taken[1].status = "success"

\* C17 (as claimed): a failure of any conversation-store operation under
\* process_message, get_history as well as add_message, reaches the top-level
\* handler: the call ends with the error response.
C17_StorageFailureReachesHandler ==
  \A r \in Req :
    (pm[r].pc = "done" /\ (GetHistoryFailed(r) \/ pm[r].store_failures # {})) =>
      /\ pm[r].response.keys = ErrorKeys
      /\ pm[r].response.error # "none"

\* C18: process_message leaves only by returning a mapping; the mapping has
\* "message" and "session_id", the latter being the session_id of the call;
\* it is the full response, or the error response, which carries the error
\* text as well.
C18_ProcessMessageAlwaysReturns ==
  /\ [](\A r \in Req :
          /\ pm[r].pc \in {"idle", "add_user", "reason", "execute", "narrate",
                           "add_assistant", "done", "returned"}
          /\ pm[r].pc = "done" =>
               /\ {"message", "session_id"} \subseteq pm[r].response.keys
               /\ pm[r].response.message # NoText
               /\ pm[r].response.session_id = pm[r].session_id
               /\ pm[r].session_id \in Sessions
               /\ \/ pm[r].response.keys = OkKeys /\ pm[r].response.error = "none"
                  \/ /\ pm[r].response.keys = ErrorKeys
                     /\ pm[r].response.message = ErrorText
                     /\ pm[r].response.error # "none")
  /\ [][\A r \in Req :
          (pm[r].pc # "returned" /\ pm'[r].pc = "returned") => pm[r].pc = "done"]_vars

C18_Witness ==
  \E r \in Req :
    /\ pm[r].pc = "done"
    /\ pm[r].response.keys = ErrorKeys
    /\ pm[r].response.error = "storage error"
    /\ pm[r].response.session_id = "s2"
    /\ Len(pm[r].results) = 2

\* C19 (as claimed): POST /chat answers with the six fields, or with HTTP 500
\* and an error detail; a failure the orchestrator has handled itself
\* (planning, tool, narration, storage) is answered with the structured
\* message, never with HTTP 500.
C19_ChatOutcomes ==
  [][\A r \in Req :
       (pm[r].pc = "done" /\ pm'[r].pc = "returned") =>
         \/ pm'[r].http.status = 200 /\ pm'[r].http.keys = OkKeys
         \/ /\ pm'[r].http.status = 500
            /\ pm'[r].http.keys = {"detail"}
            /\ pm[r].response.error
                 \notin {"storage error", "reasoning error", "plan error"}]_vars

\* What the tables hold for session s.
ItemsOf(s) ==
  << [k \in {x \in DOMAIN conversations_table : x[1] = s} |-> conversations_table[k]],
     [k \in {x \in DOMAIN sessions_table : x = s} |-> sessions_table[k]],
     [k \in {x \in DOMAIN actions_table : x[1] = s} |-> actions_table[k]] >>

\* The sessions of the calls under way before or after a step.
ActingSessions ==
  {pm[r].session_id : r \in Req} \cup {pm'[r].session_id : r \in Req}
    \cup {ap[a].session_id : a \in Apr} \cup {ap'[a].session_id : a \in Apr}

Attempted(r, attempt) ==
  Cardinality({j \in 1..Len(attempts[r]) : attempts[r][j] = attempt})

\* C21: nothing is retried.  In one process_message call invoke_model is called
\* at most once for planning and at most once for narration, and execute_tool
\* exactly once for each step _execute_plan has dispatched (a step that is not
\* gated), whether that call returned or raised; for a gated step it is not
\* called, and the pending-action store is called once.
C21_NothingIsRetried ==
  \A r \in Req :
    InCall(r) =>
      /\ Attempted(r, Attempt("invoke_model", "reason", 0)) <= 1
      /\ Attempted(r, Attempt("invoke_model", "_generate_response", 0)) <= 1
      /\ pm[r].reasoning # "none"
           => Attempted(r, Attempt("invoke_model", "reason", 0)) = 1
      /\ pm[r].final.message # NoText
           => Attempted(r, Attempt("invoke_model", "_generate_response", 0)) = 1
      /\ \A i \in 1..MaxPlan + 1 :
           LET tool_calls  == Attempted(r, Attempt("execute_tool", "_execute_plan", i))
               store_calls == Attempted(r, Attempt("put_item", "_store_pending_action", i))
           IN  IF i \in 1..Len(pm[r].results)
                 THEN IF Gated(pm[r].plan[i])
                        THEN tool_calls = 0 /\ store_calls = 1
                        ELSE tool_calls = 1 /\ store_calls = 0
                 ELSE tool_calls = 0 /\ store_calls = 0
      /\ Len(attempts[r]) <= Len(pm[r].results) + 2

C21_Witness ==
  \E r \in Req :
    /\ pm[r].pc = "done"
    /\ pm[r].response.keys = OkKeys
    /\ Len(pm[r].plan) = 2
    /\ pm[r].results[1].status = "error"
    /\ pm[r].results[1].error = "raise"
    /\ pm[r].results[2].status = "success"
    /\ pm[r].final.message = FallbackText
    /\ Len(attempts[r]) = 4

Statuses == {"success", "error", "pending_approval"}

\* C22: for a plan of n steps _execute_plan terminates and returns n entries,
\* the i-th carrying the tool name of the i-th step and one status among
\* success, error and pending_approval; every iteration appends exactly one
\* entry, for the step it is at, and moves to the next step.
C22_OneEntryPerStep ==
  /\ [](\A r \in Req :
          Live(r) =>
            /\ pm[r].idx \in 1..Len(pm[r].plan) + 1
            /\ Len(pm[r].results) = pm[r].idx - 1
            /\ pm[r].pc = "execute" => pm[r].idx <= Len(pm[r].plan)
            /\ AfterExecutePlan(r) => Len(pm[r].results) = Len(pm[r].plan)
            /\ \A i \in 1..Len(pm[r].results) :
                 /\ pm[r].results[i].tool = pm[r].plan[i].tool
                 /\ pm[r].results[i].status \in Statuses)
  /\ [][\A r \in Req :
          (pm[r].pc = "execute" /\ pm'[r] # pm[r]) =>
            /\ pm'[r].plan = pm[r].plan
            /\ pm'[r].idx = pm[r].idx + 1
            /\ Len(pm'[r].results) = Len(pm[r].results) + 1
            /\ SubSeq(pm'[r].results, 1, Len(pm[r].results)) = pm[r].results
            /\ pm'[r].pc = IF pm'[r].idx > Len(pm[r].plan) THEN "narrate"
                           ELSE "execute"]_vars
  /\ \A r \in Req : (pm[r].pc = "execute") ~> (pm[r].pc = "narrate")

C22_Witness ==
  \E r \in Req :
    /\ pm[r].pc = "narrate"
    /\ Len(pm[r].plan) = MaxPlan
    /\ Len(pm[r].results) = MaxPlan
    /\ pm[r].results[1].status = "pending_approval"
    /\ pm[r].results[2].status = "error"
    /\ pm[r].plan[1].tool # pm[r].plan[2].tool

\* ------------------------------------------------- lifecycle of a PendingAction

\* The key and the item _store_pending_action writes for the step call r is at.
StoreKeyOf(r) ==
  ActionKey(pm[r].session_id, ActionId(pm[r].session_id, now))

\* C23 (as claimed): a PendingAction is created only by _execute_plan at a
\* gated step, as a pending one; it is never deleted; its status changes only
\* from pending to executed (executed_at being set with it), inside the
\* approve_action call for its own key; an executed one never becomes pending
\* again.
C23_PendingActionLifecycle ==
  [][/\ \A k \in DOMAIN actions_table : k \in DOMAIN actions_table'
     /\ \A k \in DOMAIN actions_table' \ DOMAIN actions_table :
          /\ actions_table'[k].status = "pending"
          /\ \E r \in Req :
               /\ pm[r].pc = "execute"
               /\ Gated(pm[r].plan[pm[r].idx])
               /\ k = StoreKeyOf(r)
               /\ pm'[r].results = Append(pm[r].results,
                                          PendingEntry(pm[r].plan[pm[r].idx].tool))
     /\ \A k \in DOMAIN actions_table :
          /\ actions_table[k].status = "executed"
               => actions_table'[k].status = "executed"
          /\ actions_table'[k].status # actions_table[k].status =>
               /\ actions_table[k].status = "pending"
               /\ actions_table'[k] =
                    [actions_table[k] EXCEPT !.status = "executed", !.executed_at = now]
               /\ \E a \in Apr :
                    /\ ap[a].pc = "update"
                    /\ k = ActionKey(ap[a].session_id, ap[a].action_id)]_vars

\* ------------------------------------------------ two calls under way at once

\* The texts that only call r writes: its user message and its narration.
TextsOf(r) == {UserText(r), NarrationText(r)}

\* C24 (as claimed): when two process_message calls on one session are under
\* way at once, a message one of them stores never replaces or removes a
\* message the other has stored, so that all their messages are kept; and in
\* the stored order a call's user message comes before its own narration.
C24_ConcurrentMessagesAllKept ==
  /\ [][\A r \in Req, q \in Req :
          ( /\ r # q /\ InCall(r) /\ InCall(q)
            /\ pm[r].session_id = pm[q].session_id
            /\ pm'[q].writes # pm[q].writes )
          => \A k \in DOMAIN conversations_table :
               conversations_table[k].content \in TextsOf(r)
                 => /\ k \in DOMAIN conversations_table'
                    /\ conversations_table'[k] = conversations_table[k]]_vars
  /\ [](\A r \in Req : \A ku \in DOMAIN conversations_table :
          \A ka \in DOMAIN conversations_table :
            ( /\ conversations_table[ku].content = UserText(r)
              /\ conversations_table[ka].content = NarrationText(r) )
            => ku[1] = ka[1] /\ ku[2] < ka[2])

\* ------------------------------------------------------ approving more than once

\* C25 (as claimed): once a PendingAction is executed, approve_action does not
\* invoke its tool again: no execute_tool call is made by approve_action for
\* a key whose item has the status executed.
C25_ExecutedActionIsNotRunAgain ==
  [][\A c \in calls' \ calls :
       c.caller = "approve_action" => actions_table[c.key].status # "executed"]_vars

\* The key approve_action call a works on.
KeyOf(a) == ActionKey(ap[a].session_id, ap[a].action_id)

\* C26: when execute_tool raises under approve_action (the tool raised, or
\* its name is not registered), the PendingAction is left as it was, a pending
\* one staying pending without executed_at, and the exception leaves
\* approve_action: the route answers HTTP 500.  A status becomes executed
\* only in the update that follows a tool call that returned.
C26_FailedApprovalLeavesActionPending ==
  /\ [][\A a \in Apr :
          /\ (ap[a].pc = "idle" /\ ap'[a].pc = "execute")
               => UNCHANGED << actions_table, calls >>
          /\ (ap[a].pc = "execute" /\ ap'[a].raised # "none") =>
               /\ UNCHANGED actions_table
               /\ ap'[a].pc = "done"
               /\ ap'[a].result = NoResult
               /\ ap'[a].http = 500
          /\ (ap[a].pc = "done" /\ ap[a].raised # "none" /\ ap'[a] # ap[a]) =>
               /\ UNCHANGED actions_table
               /\ calls' \subseteq calls
               /\ ap'[a].pc = "returned"]_vars
  /\ [][\A k \in DOMAIN actions_table :
          (actions_table[k].status # "executed" /\ actions_table'[k].status = "executed")
            => \E a \in Apr :
                 /\ ap[a].pc = "update" /\ KeyOf(a) = k
                 /\ ap[a].raised = "none"
                 /\ \E c \in calls :
                      /\ c.caller = "approve_action" /\ c.frame = a /\ c.key = k
                      /\ c.outcome = "ok"
                      /\ ap[a].result = c.result]_vars
  /\ [](\A k \in DOMAIN actions_table :
          actions_table[k].status = "pending" <=> actions_table[k].executed_at = -1)

C26_Witness ==
  \E a \in Apr :
    /\ ap[a].pc = "done"
    /\ ap[a].raised = "raise"
    /\ ap[a].http = 500
    /\ actions_table[KeyOf(a)].status = "pending"
    /\ \E c \in calls :
         c.caller = "approve_action" /\ c.frame = a /\ c.outcome = "raise"

\* --------------------------------------------------- the pending-action store

\* C27: when _store_pending_action raises at a gated step, the step's tool is
\* not run, the step is recorded with status "error" (neither
\* pending_approval nor success), the actions table is left as it was, and
\* the loop goes on to the following steps.
C27_StoreFailureIsStepError ==
  /\ [][\A r \in Req :
          ( /\ pm[r].pc = "execute" /\ pm'[r] # pm[r]
            /\ Gated(pm[r].plan[pm[r].idx]) ) =>
            LET step  == pm[r].plan[pm[r].idx]
                entry == pm'[r].results[pm[r].idx]
            IN  /\ calls' = calls
                /\ Attempted(r, Attempt("execute_tool", "_execute_plan", pm[r].idx))' = 0
                /\ pm'[r].idx = pm[r].idx + 1
                /\ pm'[r].pc = IF pm[r].idx < Len(pm[r].plan) THEN "execute"
                               ELSE "narrate"
                /\ \/ /\ entry = PendingEntry(step.tool)
                      /\ StoreKeyOf(r) \in DOMAIN actions_table'
                      /\ actions_table'[StoreKeyOf(r)] =
                           PendingItem(pm[r].session_id, step, now)
                   \/ /\ entry = ErrorEntry(step.tool, "put_item failed")
                      /\ actions_table' = actions_table]_vars
  /\ [](\A r \in Req :
          Live(r) =>
            /\ AfterExecutePlan(r) => Len(pm[r].results) = Len(pm[r].plan)
            /\ \A i \in 1..Len(pm[r].results) :
                 Gated(pm[r].plan[i]) =>
                   /\ pm[r].results[i].status \in {"pending_approval", "error"}
                   /\ PlanCalls(r, i) = {}
            /\ (\A i \in 1..Len(pm[r].results) :
                  pm[r].results[i].status # "pending_approval")
                 => StoredKeys = {})

C27_Witness ==
  \E r \in Req :
    /\ AfterExecutePlan(r)
    /\ Len(pm[r].plan) = 2
    /\ Gated(pm[r].plan[1])
    /\ pm[r].results[1] = ErrorEntry(pm[r].plan[1].tool, "put_item failed")
    /\ pm[r].results[2].status = "success"
    /\ StoredKeys = {}

\* ------------------------------------------------ deferred and direct execution

\* What _execute_plan passes to execute_tool for a step it dispatches.
DirectArguments(step) == [tool_name |-> step.tool, tool_input |-> StepInput(step)]

\* C28 (as claimed): approving the PendingAction made from a step invokes
\* execute_tool with the tool name and the input _execute_plan would have
\* passed for that step, a step without "input" included, and returns the
\* payload that call gives.
C28_DeferredEqualsDirect ==
  \A a \in Apr :
    (ap[a].pc \in {"update", "done"} /\ ap[a].result # NotFoundResult) =>
      \E c \in calls :
        /\ c.caller = "approve_action" /\ c.frame = a
        /\ [tool_name |-> c.tool_name, tool_input |-> c.tool_input]
             = DirectArguments(ap[a].action)
        /\ c.outcome = "ok" =>
             ap[a].result = Payload(DirectArguments(ap[a].action).tool_name,
                                    DirectArguments(ap[a].action).tool_input)

====
